---- MODULE Spec2Model ----
(***************************************************************************)
(* A model of tools/jbrowse/jbrowse.py: the JbrowseConnector that turns a  *)
(* YAML track list into JBrowse track descriptors.                          *)
(*                                                                          *)
(* Python values are modelled as follows.                                   *)
(*   - dict: a TLA+ function over strings; dict.update is Update.           *)
(*   - None: the empty sequence <<>>; a value v that may be None: <<v>>.    *)
(*   - float: an integer (the model's score texts all denote integers).     *)
(*   - an exception in flight: the field exc of the threaded state record   *)
(*     (exc = "" when none); every statement is skipped once exc is set,    *)
(*     which is how an uncaught Python exception unwinds.                   *)
(* The threaded state record st carries what a handler reads and writes:    *)
(* the connector's colour cursor, the log of external invocations, the      *)
(* track list store, the temporary files present, and the handler's return  *)
(* value.                                                                   *)
(***************************************************************************)
EXTENDS Integers, Sequences, FiniteSets, TLC

VARIABLES
    pc,                 \* "main" | "file" | "done" | "error"
    track_data,         \* the tracks of the YAML list read so far
    track,              \* the track process_annotations is (was last) working on
    brewer_colour_idx,  \* JbrowseConnector.brewer_colour_idx
    trackData,          \* the dict process_annotations fills and reuses per file
    zipped_tracks,      \* sorted (file, label) pairs of the track
    i,                  \* number of loop iterations of the track started
    track_labels,       \* trackData['label'] of each iteration of the track
    calls,              \* every external invocation so far, with its outcome
    store,              \* data/trackList.json: the descriptors appended so far
    tmpfiles,           \* the temporary files that exist
    exc,                \* the uncaught exception ("" when none)
    opacity_math,       \* add_features' MIN_MAX_OPACITY_MATH (<<>> until built)
    colours,            \* the outcome of every _get_colours call so far
    gff_file,           \* the lines of the file _min_max_gff was given
    scan_result         \* what _min_max_gff returned (<<>> before the call)

vars == << pc, track_data, track, brewer_colour_idx, trackData, zipped_tracks, i,
           track_labels, calls, store, tmpfiles, exc, opacity_math, colours,
           gff_file, scan_result >>

(***************************************************************************)
(* Bounds of the model.                                                     *)
(***************************************************************************)
MaxTracks == 2      \* tracks in the YAML list
MaxFiles == 3       \* files in the YAML list, all tracks together
MaxLines == 3
MaxColourCalls == 14

(***************************************************************************)
(* Python helpers.                                                          *)
(***************************************************************************)
None == <<>>

Some(v) == <<v>>

Update(d, e) ==
    [k \in DOMAIN d \cup DOMAIN e |-> IF k \in DOMAIN e THEN e[k] ELSE d[k]]

Get(d, k, default) == IF k \in DOMAIN d THEN d[k] ELSE default

EmptyDict == [k \in {} |-> 0]

Ok(st) == st.exc = ""

Raise(st, e) == [st EXCEPT !.exc = e]

(***************************************************************************)
(* Module constants.                                                        *)
(***************************************************************************)
BREWER_COLOUR_SCHEMES ==
    << <<166, 206, 227>>, <<31, 120, 180>>, <<178, 223, 138>>, <<51, 160, 44>>,
       <<251, 154, 153>>, <<227, 26, 28>>, <<253, 191, 111>>, <<255, 127, 0>>,
       <<202, 178, 214>>, <<106, 61, 154>>, <<255, 255, 153>>, <<177, 89, 40>> >>

BREWER_DIVERGING_PALLETES ==
    [ BrBg |-> <<"#543005", "#003c30">>,
      PiYg |-> <<"#8e0152", "#276419">>,
      PRGn |-> <<"#40004b", "#00441b">>,
      PuOr |-> <<"#7f3b08", "#2d004b">>,
      RdBu |-> <<"#67001f", "#053061">>,
      RdGy |-> <<"#67001f", "#1a1a1a">>,
      RdYlBu |-> <<"#a50026", "#313695">>,
      RdYlGn |-> <<"#a50026", "#006837">>,
      Spectral |-> <<"#9e0142", "#5e4fa2">> ]

TN_TABLE == [ gff3 |-> "--gff", gff |-> "--gff", bed |-> "--bed", genbank |-> "--gbk" ]

(***************************************************************************)
(* JbrowseConnector.subprocess_check_call and subprocess.check_call.        *)
(* ok is the exit status of the external program (TRUE: zero).              *)
(***************************************************************************)
check_call(st, cmd, ok) ==
    IF ~Ok(st) THEN st
    ELSE LET logged == [st EXCEPT !.calls = Append(@, [cmd |-> cmd, ok |-> ok])]
         IN  IF ok THEN logged ELSE Raise(logged, "CalledProcessError")

call_unchecked(st, cmd, ok) ==
    IF ~Ok(st) THEN st
    ELSE [st EXCEPT !.calls = Append(@, [cmd |-> cmd, ok |-> ok])]

subprocess_check_call(st, cmd, ok) == check_call(st, cmd, ok)

(***************************************************************************)
(* JbrowseConnector._get_colours: the result is left in st.ret.             *)
(* BREWER_COLOUR_SCHEMES[idx] is a 0-based list index: IndexError when idx  *)
(* is not below the length of the list, and then the cursor is not advanced.*)
(***************************************************************************)
_get_colours(st) ==
    IF ~Ok(st) THEN st
    ELSE IF st.idx >= Len(BREWER_COLOUR_SCHEMES)
         THEN [Raise(st, "IndexError") EXCEPT
                 !.colours = Append(@, [ok |-> FALSE, rgb |-> <<>>])]
         ELSE [st EXCEPT !.ret = BREWER_COLOUR_SCHEMES[st.idx + 1],
                         !.idx = st.idx + 1,
                         !.colours = Append(@, [ok |-> TRUE,
                                                rgb |-> BREWER_COLOUR_SCHEMES[st.idx + 1]])]

(***************************************************************************)
(* Files and paths of the model's inputs.  Two data files with the same     *)
(* basename in different directories; HexDigest holds their real md5        *)
(* digests; PathRank is the order Python's string comparison gives them.    *)
(***************************************************************************)
Paths == {"a/x.dat", "b/x.dat"}

PathRank == ("a/x.dat" :> 1) @@ ("b/x.dat" :> 2)

HexDigest ==
    ("a/x.dat" :> "0a125ac1f8ae6330af95dead23e4a0c7") @@
    ("b/x.dat" :> "91f3742fe7b6a5b632cf5444ed91e8fa")

basename == ("a/x.dat" :> "x.dat") @@ ("b/x.dat" :> "x.dat")

\* os.path.realpath of a relative path, the working directory being /job
realpath(p) == "/job/" \o p

\* str.replace('__pd__', '#') on the colour texts of the model
ReplacePd == ("__pd__ff0000" :> "#ff0000") @@ ("__pd__0000ff" :> "#0000ff")

(***************************************************************************)
(* JbrowseConnector._min_max_gff.  A line is the list line.split('\t');     *)
(* Python's index 5 is index 6 here.  FloatValue is float() on the score    *)
(* texts of the model: a text outside its domain raises ValueError, a line  *)
(* with fewer than six fields raises IndexError, and both are swallowed by  *)
(* the except clause.                                                       *)
(***************************************************************************)
FloatValue == ("0" :> 0) @@ ("1" :> 1) @@ ("5" :> 5) @@ ("-2" :> (0 - 2))

ScoreTexts == {"0", "1", "5", "-2", "."}

GffLine(score) == <<"chr1", "blast", "match", "1", "9", score>>

ShortLine == <<"##gff-version 3">>

\* Python's  (x or value)  for x a float or None
OrElse(x, value) == IF x = None \/ x = Some(0) THEN value ELSE x[1]

PyMin(a, b) == IF b < a THEN b ELSE a

PyMax(a, b) == IF b > a THEN b ELSE a

RECURSIVE ScanLines(_, _, _)
ScanLines(lines, min_val, max_val) ==
    IF lines = <<>> THEN <<min_val, max_val>>
    ELSE LET line == Head(lines)
         IN  IF Len(line) < 6 \/ line[6] \notin DOMAIN FloatValue
             THEN ScanLines(Tail(lines), min_val, max_val)
             ELSE LET value == FloatValue[line[6]]
                      m1 == PyMin(value, OrElse(min_val, value))
                      M1 == PyMax(value, OrElse(max_val, value))
                      m2 == IF value < m1 THEN value ELSE m1
                      M2 == IF value > M1 THEN value ELSE M1
                  IN  ScanLines(Tail(lines), Some(m2), Some(M2))

_min_max_gff(lines) == ScanLines(lines, None, None)

(***************************************************************************)
(* JbrowseConnector._parse_colours: the clientConfig is left in st.ret.     *)
(***************************************************************************)
RgbaText(rgb) ==
    "rgba(" \o ToString(rgb[1]) \o ", " \o ToString(rgb[2]) \o ", "
            \o ToString(rgb[3]) \o ", 1)"

_parse_colours(st, t) ==
    LET style == t["options"]["style"] IN
    IF ~Ok(st) THEN st
    ELSE IF t["format"] = "wiggle"
    THEN IF style["color_config"] = "brewer"
         THEN IF style["color"] \notin DOMAIN BREWER_DIVERGING_PALLETES
              THEN Raise(st, "Exception")
              ELSE [st EXCEPT !.ret =
                      [pos_color |-> BREWER_DIVERGING_PALLETES[style["color"]][1],
                       neg_color |-> BREWER_DIVERGING_PALLETES[style["color"]][2]]]
         ELSE [st EXCEPT !.ret = [pos_color |-> ReplacePd[style["color_pos"]],
                                  neg_color |-> ReplacePd[style["color_neg"]]]]
    ELSE IF style["color"] = "__auto__"
         THEN LET s1 == _get_colours(st)
              IN  IF Ok(s1) THEN [s1 EXCEPT !.ret = [color |-> RgbaText(s1.ret)]]
                  ELSE s1
         ELSE [st EXCEPT !.ret = [color |-> ReplacePd[style["color"]]]]

(***************************************************************************)
(* External programs.  A command is its argv plus the dicts passed through  *)
(* json.dumps.  What a successful run of the two JBrowse scripts does to    *)
(* data/trackList.json is not code of this repository: each appends one     *)
(* track descriptor.                                                        *)
(***************************************************************************)
Cmd(argv) == [argv |-> argv, json |-> <<>>]

CmdJson(argv, dicts) == [argv |-> argv, json |-> dicts]

add_track_json_pl(st, payload) ==
    IF Ok(st) THEN [st EXCEPT !.store = Append(@, payload)] ELSE st

flatfile_to_json_pl(st, descriptor) ==
    IF Ok(st) THEN [st EXCEPT !.store = Append(@, descriptor)] ELSE st

\* COLOR_FUNCTION_TEMPLATE.format({...}): the template's literal braces are
\* not doubled, so its first replacement field is the whole function body,
\* which no argument supplies: str.format raises (KeyError on Python 2,
\* ValueError on Python 3) whatever the colour.
COLOR_FUNCTION_TEMPLATE_format(st, fields) ==
    IF Ok(st) THEN Raise(st, "KeyError") ELSE st

\* str() of a float with an integral value
FloatStr(v) == ToString(v) \o ".0"

(***************************************************************************)
(* JbrowseConnector._add_json                                               *)
(***************************************************************************)
_add_json(st, json_data, ok) ==
    IF ~Ok(st) \/ DOMAIN json_data = {} THEN st
    ELSE LET s1 == [st EXCEPT !.tmpfiles = @ \cup {"tmp_json"}]
             s2 == subprocess_check_call(s1,
                      Cmd(<<"perl", "bin/add-track-json.pl", "tmp_json",
                            "data/trackList.json">>), ok)
             s3 == add_track_json_pl(s2, json_data)
         IN  IF Ok(s3) THEN [s3 EXCEPT !.tmpfiles = @ \ {"tmp_json"}] ELSE s3

(***************************************************************************)
(* JbrowseConnector.add_features.  content is what the data file holds; it   *)
(* is read in match mode only.                                              *)
(***************************************************************************)
MinMaxOpacityMath(min_val, max_val) ==
    [ text |-> " var opacity = (score - $" \o FloatStr(min_val) \o ") * (1/($"
                 \o FloatStr(max_val) \o " - $" \o FloatStr(min_val) \o ")); ",
      max |-> max_val,
      min |-> min_val ]

add_features(st, data, format, kwargs, content, oc) ==
    LET td == st.trackData
        argv == <<"perl", "bin/flatfile-to-json.pl", Get(TN_TABLE, format, "gff"),
                  data, "--trackLabel", td["label"], "--key", td["key"]>>
        config0 == IF "category" \in DOMAIN kwargs
                   THEN [category |-> kwargs["category"]] ELSE EmptyDict
        match == Get(kwargs, "match", FALSE)
        mm == _min_max_gff(content)
        scanned == IF match
                   THEN [st EXCEPT !.gff_file = content, !.scan_result = mm]
                   ELSE st
        coloured ==
            IF match /\ mm[1] # None /\ mm[2] # None
            THEN LET s1 == [scanned EXCEPT
                              !.opacity_math = Some(MinMaxOpacityMath(mm[1][1], mm[2][1]))]
                     s2 == _get_colours(s1)
                     s3 == COLOR_FUNCTION_TEMPLATE_format(s2, s2.ret)
                 IN  IF Ok(s3)
                     THEN [s3 EXCEPT !.trackData =
                             Update(@, [style |-> Update(@["style"], [color |-> s3.ret])])]
                     ELSE s3
            ELSE scanned
        clientConfig == coloured.trackData["style"]
        config == IF match
                  THEN Update(config0, [glyph |-> "JBrowse/View/FeatureGlyph/Segments"])
                  ELSE config0
        cmd == IF match
               THEN CmdJson(argv \o <<"--clientConfig", "--trackType",
                                      "JBrowse/View/Track/CanvasFeatures", "--config">>,
                            <<clientConfig, config>>)
               ELSE CmdJson(argv \o <<"--config">>, <<config>>)
        descriptor ==
            IF match
            THEN [label |-> td["label"], key |-> td["key"], style |-> clientConfig,
                  type |-> "JBrowse/View/Track/CanvasFeatures", config |-> config]
            ELSE [label |-> td["label"], key |-> td["key"], config |-> config]
    IN  IF ~Ok(st) THEN st
        ELSE flatfile_to_json_pl(subprocess_check_call(coloured, cmd, oc[1]), descriptor)

(***************************************************************************)
(* JbrowseConnector.add_bigwig                                              *)
(***************************************************************************)
add_bigwig(st, data, kwargs, oc) ==
    LET dest == "data/raw/" \o basename[data]
        s1 == subprocess_check_call(st, Cmd(<<"ln", data, dest>>), oc[1])
        td1 == Update(s1.trackData,
                      [urlTemplate |-> "../" \o dest,
                       storeClass |-> "JBrowse/Store/SeqFeature/BigWig",
                       type |-> "JBrowse/View/Track/Wiggle/Density"])
        td2 == IF "bicolor_pivot" \notin DOMAIN td1
               THEN Update(td1, [bicolor_pivot |->
                                   Get(kwargs["style"], "bicolor_pivot", "zero")])
               ELSE td1
        td3 == IF "type" \in DOMAIN kwargs
               THEN Update(td2, [type |-> kwargs["type"]]) ELSE td2
        td4 == IF "min" \in DOMAIN kwargs /\ "max" \in DOMAIN kwargs
               THEN Update(td3, [min |-> kwargs["min"], max |-> kwargs["max"]])
               ELSE Update(td3, [autoscale |-> Get(kwargs, "autoscale", "local")])
    IN  IF ~Ok(s1) THEN s1
        ELSE _add_json([s1 EXCEPT !.trackData = td4], td4, oc[2])

(***************************************************************************)
(* JbrowseConnector.add_bam.  The auto-SNP branch builds trackData2 and     *)
(* then hands trackData, not trackData2, to _add_json.                      *)
(***************************************************************************)
add_bam(st, data, kwargs, oc) ==
    LET dest == "data/raw/" \o basename[data]
        s1 == subprocess_check_call(st, Cmd(<<"ln", "-s", data, dest>>), oc[1])
        s2 == IF Ok(s1) /\ "bam_index" \notin DOMAIN kwargs
              THEN Raise(s1, "KeyError") ELSE s1
        s3 == IF Ok(s2)
              THEN subprocess_check_call(s2,
                      Cmd(<<"ln", "-s", kwargs["bam_index"], dest \o ".bai">>), oc[2])
              ELSE s2
        td1 == Update(s3.trackData,
                      [urlTemplate |-> "../" \o dest,
                       type |-> "JBrowse/View/Track/Alignments2",
                       storeClass |-> "JBrowse/Store/SeqFeature/BAM"])
        td2 == IF "category" \in DOMAIN kwargs
               THEN Update(td1, [category |-> kwargs["category"]]) ELSE td1
        s4 == IF Ok(s3) THEN _add_json([s3 EXCEPT !.trackData = td2], td2, oc[3])
              ELSE s3
        trackData2 == Update(td2,
                      [type |-> "JBrowse/View/Track/SNPCoverage",
                       key |-> td2["key"] \o " - SNPs/Coverage",
                       label |-> td2["label"] \o "_autosnp"])
    IN  IF Ok(s4) /\ Get(kwargs, "auto_snp", FALSE)
        THEN _add_json(s4, td2, oc[4])
        ELSE s4

(***************************************************************************)
(* JbrowseConnector.add_vcf.  Its second parameter is named clientConfig,   *)
(* so the name trackData in its body is unbound: NameError after the three  *)
(* external calls.                                                          *)
(***************************************************************************)
add_vcf(st, data, kwargs, oc) ==
    LET dest == "data/raw/" \o basename[data]
        s1 == subprocess_check_call(st, Cmd(<<"ln", "-s", data, dest>>), oc[1])
        s2 == subprocess_check_call(s1, Cmd(<<"bgzip", dest>>), oc[2])
        s3 == subprocess_check_call(s2,
                 Cmd(<<"tabix", "-p", "vcf", dest \o ".gz">>), oc[3])
    IN  IF Ok(s3) THEN Raise(s3, "NameError") ELSE s3

(***************************************************************************)
(* JbrowseConnector.add_blastxml.  The two transforms go through            *)
(* subprocess.check_call directly; the colour function is built with        *)
(* COLOR_FUNCTION_TEMPLATE.format, which raises, so the conversion and the  *)
(* two unlink calls after it are not reached.                               *)
(***************************************************************************)
add_blastxml(st, data, kwargs, oc) ==
    LET s1 == [st EXCEPT !.tmpfiles = @ \cup {"tmp_gff3_unrebased"}]
        s2 == IF "min_gap" \in DOMAIN kwargs
              THEN check_call(s1,
                     Cmd(<<"python", "blastxml_to_gapped_gff3.py", "--trim_end",
                           "--min_gap", kwargs["min_gap"], data>>), oc[1])
              ELSE Raise(s1, "KeyError")
        s3 == IF Ok(s2) THEN [s2 EXCEPT !.tmpfiles = @ \cup {"tmp_gff3_rebased"}]
              ELSE s2
        s4 == IF ~Ok(s3) THEN s3
              ELSE IF {"protein", "parent"} \subseteq DOMAIN kwargs
              THEN check_call(s3,
                     Cmd(<<"python", "gff3_rebase.py">>
                         \o (IF kwargs["protein"] THEN <<"--protein2dna">> ELSE <<>>)
                         \o <<kwargs["parent"], "tmp_gff3_unrebased">>), oc[2])
              ELSE Raise(s3, "KeyError")
        s5 == _get_colours(s4)
        s6 == COLOR_FUNCTION_TEMPLATE_format(s5, s5.ret)
        td == s6.trackData
        clientConfig == Update(td["style"], [color |-> s6.ret])
        config0 == [glyph |-> "JBrowse/View/FeatureGlyph/Segments"]
        config == IF "category" \in DOMAIN kwargs
                  THEN Update(config0, [category |-> kwargs["category"]]) ELSE config0
        s7 == IF Ok(s6)
              THEN subprocess_check_call(
                     [s6 EXCEPT !.trackData["style"] = clientConfig],
                     CmdJson(<<"perl", "bin/flatfile-to-json.pl", "--gff",
                               "tmp_gff3_rebased", "--trackLabel", td["label"],
                               "--key", td["key"], "--clientConfig", "--config",
                               "--trackType", "JBrowse/View/Track/CanvasFeatures">>,
                             <<clientConfig, config>>), oc[3])
              ELSE s6
        s8 == flatfile_to_json_pl(s7,
                 [label |-> td["label"], key |-> td["key"], style |-> clientConfig,
                  type |-> "JBrowse/View/Track/CanvasFeatures", config |-> config])
    IN  IF Ok(s8)
        THEN [s8 EXCEPT !.tmpfiles = @ \ {"tmp_gff3_rebased", "tmp_gff3_unrebased"}]
        ELSE s8

(***************************************************************************)
(* The inputs: the tracks a YAML list may hold.  Every track has ext,       *)
(* format, files, labels and options (with a style); the other keys are     *)
(* present or absent as the track kind needs.                               *)
(***************************************************************************)
RECURSIVE SeqsUpTo(_, _)
SeqsUpTo(S, n) ==
    IF n = 0 THEN {<<>>}
    ELSE LET shorter == SeqsUpTo(S, n - 1)
         IN  shorter \cup {Append(q, x) : q \in {r \in shorter : Len(r) = n - 1}, x \in S}

FileLists == SeqsUpTo(Paths, MaxFiles) \ {<<>>}

HumanLabels(n) == [k \in 1..n |-> "L" \o ToString(k)]

IndexOf(path) == path \o ".bai"

PlainStyles == {[color |-> "__auto__"], [color |-> "__pd__ff0000"]}

WiggleStyles ==
    {[color_config |-> "brewer", color |-> "RdBu"],
     [color_config |-> "brewer", color |-> "unknown"],
     [color_config |-> "custom", color_pos |-> "__pd__ff0000",
      color_neg |-> "__pd__0000ff"]}

FeatureOptions ==
    {[style |-> s] : s \in PlainStyles}
    \cup {[style |-> [color |-> "__auto__"], match |-> TRUE]}

BigwigOptions ==
    {[style |-> s] : s \in WiggleStyles}
    \cup {[style |-> [color_config |-> "brewer", color |-> "RdBu"],
           min |-> 0, max |-> 100]}

BamOptions(files) ==
    LET style == [color |-> "__auto__"]
    IN  {[style |-> style],
         [style |-> style, bam_index |-> IndexOf(files[1])],
         [style |-> style, bam_index |-> IndexOf(files[1]), auto_snp |-> TRUE],
         [style |-> style, bam_indexes |-> [k \in DOMAIN files |-> IndexOf(files[k])]]}

BlastOptions ==
    {[style |-> [color |-> "__auto__"], min_gap |-> "10", protein |-> b,
      parent |-> "ref.fa"] : b \in BOOLEAN}

OtherOptions == {[style |-> [color |-> "__auto__"]]}

TrackOf(ext, files, options) ==
    [ext |-> <<ext>>,
     format |-> IF ext = "bigwig" THEN "wiggle" ELSE ext,
     files |-> files,
     labels |-> HumanLabels(Len(files)),
     options |-> options]

TracksOver(lists) ==
    UNION {
        {TrackOf(e, f, o) : e \in {"gff3", "bed"}, o \in FeatureOptions}
        \cup {TrackOf("bigwig", f, o) : o \in BigwigOptions}
        \cup {TrackOf("bam", f, o) : o \in BamOptions(f)}
        \cup {Update(TrackOf("bam", f, [style |-> [color |-> "__auto__"]]),
                     [bam_indexes |-> [k \in DOMAIN f |-> IndexOf(f[k])]])}
        \cup {TrackOf("blastxml", f, o) : o \in BlastOptions}
        \cup {TrackOf(e, f, o) : e \in {"vcf", "genbank"}, o \in OtherOptions}
        : f \in lists }

Tracks == TracksOver(FileLists)

RECURSIVE TotalFiles(_)
TotalFiles(tracks) ==
    IF tracks = <<>> THEN 0
    ELSE Len(tracks[Len(tracks)]["files"])
         + TotalFiles(SubSeq(tracks, 1, Len(tracks) - 1))

\* What a features file may hold
GffLines == {GffLine(t) : t \in ScoreTexts} \cup {ShortLine}

GffFiles == SeqsUpTo(GffLines, MaxLines)

SampleGffFiles ==
    { <<>>,
      <<ShortLine, GffLine(".")>>,
      <<GffLine("0")>>,
      <<GffLine("5"), GffLine("5")>>,
      <<GffLine("1"), GffLine("."), GffLine("5")>> }

(***************************************************************************)
(* __main__, the body of the loop over track_data up to the call of         *)
(* process_annotations: the options are completed and pushed back.          *)
(***************************************************************************)
MainPrepare(t) ==
    LET extra == Get(t, "options", EmptyDict)
        e1 == IF "bam_indexes" \in DOMAIN extra
              THEN Update(extra, [bam_indexes |->
                      [k \in DOMAIN extra["bam_indexes"] |->
                          realpath(extra["bam_indexes"][k])]])
              ELSE extra
        e2 == IF "parent" \in DOMAIN e1
              THEN Update(e1, [parent |-> realpath(e1["parent"])])
              ELSE e1
        e3 == Update(e2, [category |-> Get(t, "category", "Default")])
    IN  Update(t, [options |-> e3])

(***************************************************************************)
(* process_annotations.  SortedByFile is list.sort(key = lambda x: x[0]):   *)
(* a stable sort of the (file, label) pairs by file path.                   *)
(***************************************************************************)
RECURSIVE InsertStable(_, _)
InsertStable(sorted, x) ==
    IF sorted = <<>> THEN <<x>>
    ELSE IF PathRank[x[1]] < PathRank[sorted[Len(sorted)][1]]
         THEN Append(InsertStable(SubSeq(sorted, 1, Len(sorted) - 1), x),
                     sorted[Len(sorted)])
         ELSE Append(sorted, x)

RECURSIVE SortedByFile(_)
SortedByFile(pairs) ==
    IF pairs = <<>> THEN <<>>
    ELSE InsertStable(SortedByFile(SubSeq(pairs, 1, Len(pairs) - 1)),
                      pairs[Len(pairs)])

Zip(a, b) == [k \in 1..(IF Len(a) < Len(b) THEN Len(a) ELSE Len(b)) |-> <<a[k], b[k]>>]

\* hashlib.md5(dataset).hexdigest() + '_%s' % i
LabelWithoutIndex(dataset, k) == HexDigest[dataset]

TrackLabel(dataset, k) == HexDigest[dataset] \o "_" \o ToString(k)

\* lines 324-346: the part before the loop
Prologue(st, t) ==
    LET style == t["options"]["style"]
        clientConfig == [label |-> Get(style, "label", "description"),
                         classname |-> Get(style, "className", "feature"),
                         description |-> Get(style, "description", ""),
                         height |-> Get(style, "height", "100px")]
        s1 == _parse_colours(st, t)
    IN  IF Ok(s1)
        THEN [s1 EXCEPT !.trackData = [style |-> Update(clientConfig, s1.ret)],
                        !.track = t]
        ELSE [s1 EXCEPT !.track = t]

\* lines 347-353: the head of iteration k (0-based) of the loop
LoopHead(st, zipped, k) ==
    LET td == Update(st.trackData,
                     [key |-> zipped[k + 1][2],
                      label |-> TrackLabel(zipped[k + 1][1], k)])
        s1 == [st EXCEPT !.trackData = td]
    IN  IF "bam_indexes" \in DOMAIN st.track
        THEN IF k + 1 > Len(st.track["bam_indexes"])
             THEN Raise(s1, "IndexError")
             ELSE [s1 EXCEPT !.track =
                     Update(@, [bam_index |-> st.track["bam_indexes"][k + 1]])]
        ELSE s1

(***************************************************************************)
(* The state machine.  St packs the variables a handler reads and writes;   *)
(* Commit unpacks the handler's result.  An uncaught exception ends the     *)
(* run: nothing in the program catches one outside _min_max_gff.            *)
(***************************************************************************)
St ==
    [idx |-> brewer_colour_idx, calls |-> calls, store |-> store,
     tmpfiles |-> tmpfiles, exc |-> "", ret |-> <<>>, colours |-> colours,
     opacity_math |-> opacity_math, trackData |-> trackData, track |-> track,
     gff_file |-> gff_file, scan_result |-> scan_result]

Commit(st, nextpc) ==
    /\ brewer_colour_idx' = st.idx
    /\ calls' = st.calls
    /\ store' = st.store
    /\ tmpfiles' = st.tmpfiles
    /\ exc' = st.exc
    /\ colours' = st.colours
    /\ opacity_math' = st.opacity_math
    /\ trackData' = st.trackData
    /\ track' = st.track
    /\ gff_file' = st.gff_file
    /\ scan_result' = st.scan_result
    /\ pc' = IF Ok(st) THEN nextpc ELSE "error"

Init ==
    /\ pc = "main"
    /\ track_data = <<>>
    /\ track = EmptyDict
    /\ brewer_colour_idx = 0
    /\ trackData = EmptyDict
    /\ zipped_tracks = <<>>
    /\ i = 0
    /\ track_labels = <<>>
    /\ calls = <<>>
    /\ store = <<>>
    /\ tmpfiles = {}
    /\ exc = ""
    /\ opacity_math = None
    /\ colours = <<>>
    /\ gff_file = <<>>
    /\ scan_result = <<>>

Format == track["ext"][1]

Dataset == zipped_tracks[i + 1][1]

\* __main__ takes the next track of the list and process_annotations runs
\* up to its loop
NextTrack ==
    /\ pc = "main"
    /\ Len(track_data) < MaxTracks
    /\ \E t \in TracksOver({f \in FileLists :
                                Len(f) + TotalFiles(track_data) <= MaxFiles}) :
         LET prepared == MainPrepare(t)
             s == Prologue(St, prepared)
             zipped == SortedByFile(Zip(prepared["files"], prepared["labels"]))
         IN  /\ track_data' = Append(track_data, t)
             /\ zipped_tracks' = IF Ok(s) THEN zipped ELSE zipped_tracks
             /\ i' = 0
             /\ track_labels' = <<>>
             /\ Commit(s, IF zipped = <<>> THEN "main" ELSE "file")

\* one iteration of the loop of process_annotations: head is the state after
\* lines 347-353, done the state after the dispatched builder
Iteration(head, done) ==
    /\ i' = i + 1
    /\ track_labels' = Append(track_labels, head.trackData["label"])
    /\ UNCHANGED <<track_data, zipped_tracks>>
    /\ Commit(done, IF i + 1 = Len(zipped_tracks) THEN "main" ELSE "file")

AddFeatures ==
    /\ pc = "file"
    /\ Format \in {"gff", "gff3", "bed"}
    /\ \E content \in (IF Get(track["options"], "match", FALSE)
                        THEN SampleGffFiles ELSE {<<>>}),
          oc \in [1..1 -> BOOLEAN] :
         LET head == LoopHead(St, zipped_tracks, i)
         IN  Iteration(head, add_features(head, Dataset, Format,
                                          head.track["options"], content, oc))

AddBigwig ==
    /\ pc = "file"
    /\ Format = "bigwig"
    /\ \E oc \in [1..2 -> BOOLEAN] :
         LET head == LoopHead(St, zipped_tracks, i)
         IN  Iteration(head, add_bigwig(head, Dataset, head.track["options"], oc))

AddBam ==
    /\ pc = "file"
    /\ Format = "bam"
    /\ \E oc \in [1..4 -> BOOLEAN] :
         LET head == LoopHead(St, zipped_tracks, i)
         IN  Iteration(head, add_bam(head, Dataset, head.track["options"], oc))

AddBlastxml ==
    /\ pc = "file"
    /\ Format = "blastxml"
    /\ \E oc \in [1..3 -> BOOLEAN] :
         LET head == LoopHead(St, zipped_tracks, i)
         IN  Iteration(head, add_blastxml(head, Dataset, head.track["options"], oc))

AddVcf ==
    /\ pc = "file"
    /\ Format = "vcf"
    /\ \E oc \in [1..3 -> BOOLEAN] :
         LET head == LoopHead(St, zipped_tracks, i)
         IN  Iteration(head, add_vcf(head, Dataset, head.track["options"], oc))

\* no branch of the if/elif chain matches: the iteration does nothing more
NoBuilder ==
    /\ pc = "file"
    /\ Format \notin {"gff", "gff3", "bed", "bigwig", "bam", "blastxml", "vcf"}
    /\ LET head == LoopHead(St, zipped_tracks, i)
       IN  Iteration(head, head)

\* the loop over track_data ends and the landing page is printed
Finish ==
    /\ pc = "main"
    /\ pc' = "done"
    /\ UNCHANGED <<track_data, track, brewer_colour_idx, trackData, zipped_tracks,
                   i, track_labels, calls, store, tmpfiles, exc, opacity_math,
                   colours, gff_file, scan_result>>

Next ==
    \/ NextTrack
    \/ AddFeatures
    \/ AddBigwig
    \/ AddBam
    \/ AddBlastxml
    \/ AddVcf
    \/ NoBuilder
    \/ Finish

Spec == Init /\ [][Next]_vars

(***************************************************************************)
(* The colour allocator on its own: a fresh connector whose _get_colours    *)
(* and _parse_colours are called again and again, each call starting with   *)
(* no exception in flight; pc tells how the last call ended.                *)
(***************************************************************************)
StyleTracks ==
    {TrackOf("gff3", <<>>, [style |-> s]) : s \in PlainStyles}
    \cup {TrackOf("bigwig", <<>>, [style |-> [color_config |-> "brewer", color |-> c]]) :
             c \in DOMAIN BREWER_DIVERGING_PALLETES \cup {"unknown"}}
    \cup {TrackOf("bigwig", <<>>, [style |-> s]) : s \in WiggleStyles}

GetColours ==
    /\ Len(colours) < MaxColourCalls
    /\ Commit(_get_colours(St), "main")
    /\ UNCHANGED <<track_data, zipped_tracks, i, track_labels>>

ParseColours ==
    /\ Len(colours) < MaxColourCalls
    /\ \E t \in StyleTracks : Commit(Prologue(St, t), "main")
    /\ UNCHANGED <<track_data, zipped_tracks, i, track_labels>>

NextPalette ==
    \/ GetColours
    \/ ParseColours

SpecPalette == Init /\ [][NextPalette]_vars

(***************************************************************************)
(* The score-range scan on its own: a file of up to MaxLines lines is       *)
(* scanned once.                                                            *)
(***************************************************************************)
InitScan ==
    /\ gff_file \in GffFiles
    /\ pc = "main"
    /\ track_data = <<>>
    /\ track = EmptyDict
    /\ brewer_colour_idx = 0
    /\ trackData = EmptyDict
    /\ zipped_tracks = <<>>
    /\ i = 0
    /\ track_labels = <<>>
    /\ calls = <<>>
    /\ store = <<>>
    /\ tmpfiles = {}
    /\ exc = ""
    /\ opacity_math = None
    /\ colours = <<>>
    /\ scan_result = <<>>

ScanGff ==
    /\ scan_result = <<>>
    /\ scan_result' = _min_max_gff(gff_file)
    /\ UNCHANGED <<pc, track_data, track, brewer_colour_idx, trackData,
                   zipped_tracks, i, track_labels, calls, store, tmpfiles, exc,
                   opacity_math, colours, gff_file>>

NextScan == ScanGff

SpecScan == InitScan /\ [][NextScan]_vars

(***************************************************************************)
(* The claims.                                                              *)
(***************************************************************************)
Recognized == {"gff", "gff3", "bed", "bigwig", "bam", "blastxml", "vcf"}

AllCallsOk == \A k \in DOMAIN calls : calls[k].ok

SomeCallFailed == \E k \in DOMAIN calls : ~calls[k].ok

\* C1: from a fresh connector the first 12 calls of _get_colours return 12
\* pairwise distinct triples, and for every n >= 1 call 12+n succeeds and
\* returns what call n returned.
C1_PaletteWraps ==
    /\ \A m, n \in DOMAIN colours :
          (m < n /\ n <= 12) =>
             /\ colours[m].ok
             /\ colours[n].ok
             /\ colours[m].rgb # colours[n].rgb
    /\ \A n \in DOMAIN colours :
          n > 12 => (colours[n].ok /\ colours[n].rgb = colours[n - 12].rgb)

ParsedScores(lines) ==
    {FloatValue[lines[k][6]] :
        k \in {j \in DOMAIN lines : Len(lines[j]) >= 6 /\ lines[j][6] \in DOMAIN FloatValue}}

\* C2: _min_max_gff returns the minimum and the maximum of the values of
\* column 5 that parse as numbers, ignoring the other lines, and
\* (None, None) exactly when no line has a parsable score; also when a
\* parsed value is 0.
C2_ScanIsMinMax ==
    scan_result # <<>> =>
       LET scores == ParsedScores(gff_file)
       IN  IF scores = {}
           THEN scan_result = <<None, None>>
           ELSE /\ scan_result[1] # None
                /\ scan_result[2] # None
                /\ scan_result[1][1] \in scores
                /\ scan_result[2][1] \in scores
                /\ \A v \in scores : scan_result[1][1] <= v /\ v <= scan_result[2][1]

\* C3: a track whose format is not one of the recognized formats ends
\* process_annotations in an error; its processing never completes normally.
C3_UnknownFormatIsError ==
    ~ ( /\ pc \in {"main", "done"}
        /\ track_data # <<>>
        /\ Format \notin Recognized )

\* C4: a bam file processed with auto_snp set and every external call
\* succeeding hands two descriptors to the config store, the alignment
\* descriptor and then the SNPCoverage descriptor with the derived key and
\* label, the two sharing the urlTemplate.
C4_AutoSnpSecondDescriptor ==
    ( /\ pc \in {"file", "main"}
      /\ track_data # <<>>
      /\ i >= 1
      /\ Format = "bam"
      /\ Get(track["options"], "auto_snp", FALSE) )
    => LET n == Len(store)
       IN  /\ n >= 2
           /\ store[n - 1]["type"] = "JBrowse/View/Track/Alignments2"
           /\ store[n]["type"] = "JBrowse/View/Track/SNPCoverage"
           /\ store[n]["key"] = store[n - 1]["key"] \o " - SNPs/Coverage"
           /\ store[n]["label"] = store[n - 1]["label"] \o "_autosnp"
           /\ store[n]["label"] # store[n - 1]["label"]
           /\ store[n]["urlTemplate"] = store[n - 1]["urlTemplate"]

\* C5: no temporary file created while processing a track file exists any
\* more once the operation has exited, whether it succeeded or failed
\* (every state of the model lies between two operations).
C5_NoTempFileLeft == tmpfiles = {}

\* C6: in match mode, for a scanned score range with min = max, add_features
\* builds no linear-normalize expression whose denominator max - min is zero.
C6_NoZeroDenominator ==
    ( /\ Len(scan_result) = 2
      /\ scan_result[1] # None
      /\ scan_result[1] = scan_result[2] )
    => \/ opacity_math = None
       \/ opacity_math[1].max - opacity_math[1].min # 0

RECURSIVE ExpectedDescriptors(_)
ExpectedDescriptors(tracks) ==
    IF tracks = <<>> THEN <<>>
    ELSE LET t == tracks[Len(tracks)]
             sorted == SortedByFile(Zip(t["files"], t["labels"]))
         IN  ExpectedDescriptors(SubSeq(tracks, 1, Len(tracks) - 1))
             \o [k \in DOMAIN sorted |->
                    <<HexDigest[sorted[k][1]] \o "_" \o ToString(k - 1), sorted[k][2]>>]

WellFormedTrack(t) ==
    /\ t["ext"][1] \in Recognized
    /\ ~Get(t["options"], "auto_snp", FALSE)
    /\ ~Get(t["options"], "match", FALSE)
    /\ t["ext"][1] # "blastxml"
    /\ t["ext"][1] = "bam" => "bam_index" \in DOMAIN t["options"]
    /\ t["format"] = "wiggle" =>
          ( t["options"]["style"]["color_config"] = "brewer"
            => t["options"]["style"]["color"] \in DOMAIN BREWER_DIVERGING_PALLETES )

\* C7: a run over tracks of recognized formats, without auto_snp, whose
\* external calls all succeed, appends exactly one descriptor per
\* (file, label) pair, tracks in declared order, files in ascending path
\* order within a track, each file with the label it was paired with.
\* (The statement is taken for tracks that carry what their builder reads,
\* a bam track its bam_index and a wiggle track a known palette, and that
\* build no colour function: no match mode and no blastxml.)
C7_OneDescriptorPerFile ==
    ( /\ pc \in {"done", "error"}
      /\ AllCallsOk
      /\ \A k \in DOMAIN track_data : WellFormedTrack(track_data[k]) )
    => [k \in DOMAIN store |-> <<store[k]["label"], store[k]["key"]>>]
       = ExpectedDescriptors(track_data)

\* C8: within one track the labels given to two different file positions
\* are distinct, also for paths with the same basename and for a path
\* repeated in the track.
C8_LabelsDistinct ==
    \A m, n \in DOMAIN track_labels :
       m # n => track_labels[m] # track_labels[n]

\* a track of two iterations over the same path, run to its end
C8_Witness ==
    /\ Len(track_labels) = 2
    /\ zipped_tracks[1][1] = zipped_tracks[2][1]
    /\ pc = "main"

\* C9: once an external invocation has failed, no further external
\* invocation is made and no further descriptor is appended, for the rest of
\* the track and for every later track; the run is in the error state and
\* never completes normally.
C9_FailStop ==
    /\ [](SomeCallFailed => (~calls[Len(calls)].ok /\ pc = "error"
                             /\ \A k \in 1..(Len(calls) - 1) : calls[k].ok))
    /\ [][SomeCallFailed => (calls' = calls /\ store' = store /\ pc' = "error")]_vars

\* the merge of the first of two bigwig files failed: a file of the track
\* and the rest of the track list were still to come
C9_Witness ==
    /\ pc = "error"
    /\ exc = "CalledProcessError"
    /\ SomeCallFailed
    /\ Len(track_data) = 1
    /\ i = 1
    /\ Len(zipped_tracks) = 2
    /\ Format = "bigwig"
    /\ Len(calls) = 2

BaiLinks ==
    SelectSeq(calls, LAMBDA c : c.cmd.argv[1] = "ln" /\ Len(c.cmd.argv) = 4
                                /\ c.cmd.argv[4] = "data/raw/x.dat.bai")

\* C10: for a bam track whose options give the list bam_indexes, one index
\* per file, every file is linked together with the index declared for it,
\* and processing does not fail for lack of a singular bam_index.
C10_IndexPerFile ==
    ( /\ Len(track_data) = 1
      /\ Format = "bam"
      /\ "bam_indexes" \in DOMAIN track_data[1]["options"]
      /\ AllCallsOk
      /\ i >= 1 )
    => /\ exc # "KeyError"
       /\ Len(BaiLinks) = i
       /\ \A k \in 1..i :
             BaiLinks[k].cmd.argv[3] = realpath(IndexOf(zipped_tracks[k][1]))

====
